---- MODULE Spec2Model ----
(***************************************************************************)
(* A model of src/lib/sheetToGuesstimate.ts: the spreadsheet-to-Guesstimate *)
(* converter (makeGrid, getCellData, the formula rewrite passes, makeGraph  *)
(* and gridToMermaidGraph).                                                 *)
(*                                                                          *)
(* A JavaScript string is modelled as a sequence of one-character strings,  *)
(* so that every regular expression and every replaceAll of the source is   *)
(* computed character by character, as the source computes it.              *)
(***************************************************************************)
EXTENDS Integers, Sequences, FiniteSets, TLC

VARIABLES
    pc,            \* which function of the pipeline runs next
    formula,       \* the formula handed to the function applied
    result,        \* what the function returned
    result2,       \* what it returned when run again on its own output
    sheetNames,    \* grid.sheetNames
    sheetIdx,      \* the sheet workbook.eachSheet is at (0: not started)
    rowNum,        \* the row sheet.eachRow is at (0: none yet)
    lastCol,       \* the spreadsheet column row.eachCell visited last (0: none)
    previousCell,  \* makeGrid's previousCell (None: undefined)
    maxColumn,     \* makeGrid's maxColumn
    startColumn,   \* makeGrid's startColumn of the current sheet
    cells,         \* grid.cells, in insertion order (Object.values order)
    step,          \* history: what the last visit of a cell did
    visited,       \* history: every cell visited, with its sheet and coordinates
    graph,         \* the Graph makeGraph returned
    lines          \* the lines gridToMermaidGraph pushed

vars == <<pc, formula, result, result2, sheetNames, sheetIdx, rowNum, lastCol,
          previousCell, maxColumn, startColumn, cells, step, visited, graph, lines>>

fnVars == <<formula, result, result2>>

gridVars == <<sheetNames, sheetIdx, rowNum, lastCol, previousCell, maxColumn,
              startColumn, cells, step, visited, graph, lines>>

(***************************************************************************)
(* Characters.                                                             *)
(***************************************************************************)
UpperChars == <<"A","B","C","D","E","F","G","H","I","J","K","L","M",
                "N","O","P","Q","R","S","T","U","V","W","X","Y","Z">>

LowerChars == <<"a","b","c","d","e","f","g","h","i","j","k","l","m",
                "n","o","p","q","r","s","t","u","v","w","x","y","z">>

DigitChars == <<"0","1","2","3","4","5","6","7","8","9">>

UpperSet == {UpperChars[i] : i \in DOMAIN UpperChars}

LowerSet == {LowerChars[i] : i \in DOMAIN LowerChars}

DigitSet == {DigitChars[i] : i \in DOMAIN DigitChars}

\* The characters of codes 32 (" ") to 127, in code order ("GRAVE" stands
\* for the one character of code 96, "DEL" for that of code 127).
CodeChars ==
    <<" ", "!", "\"", "#", "$", "%", "&", "'", "(", ")", "*", "+", ",", "-",
      ".", "/">> \o DigitChars \o <<":", ";", "<", "=", ">", "?", "@">>
    \o UpperChars \o <<"[", "\\", "]", "^", "_", "GRAVE">>
    \o LowerChars \o <<"{", "|", "}", "~", "DEL">>

\* The place of a character in CodeChars: charCodeAt(0) - 31.
CodeOf(c) == CHOOSE i \in DOMAIN CodeChars : CodeChars[i] = c

ToUpper(c) == IF c \in LowerSet
              THEN UpperChars[CHOOSE i \in DOMAIN LowerChars : LowerChars[i] = c]
              ELSE c

\* String.prototype.toUpperCase
toUpperCase(s) == [i \in 1..Len(s) |-> ToUpper(s[i])]

DigitVal(c) == (CHOOSE i \in DOMAIN DigitChars : DigitChars[i] = c) - 1

(***************************************************************************)
(* String primitives.                                                      *)
(***************************************************************************)
\* p occurs in s at index i.
StartsWithAt(s, i, p) ==
    /\ i >= 1
    /\ i + Len(p) - 1 <= Len(s)
    /\ \A k \in 1..Len(p) : s[i + k - 1] = p[k]

\* p occurs in s at index i, letter case ignored (the "i" flag).
StartsWithAtCI(s, i, p) ==
    /\ i >= 1
    /\ i + Len(p) - 1 <= Len(s)
    /\ \A k \in 1..Len(p) : ToUpper(s[i + k - 1]) = ToUpper(p[k])

\* String.prototype.includes
Includes(s, p) == \E i \in 1..Len(s) : StartsWithAt(s, i, p)

\* The index after the longest run of characters of S that starts at i.
RunEnd(s, i, S) ==
    CHOOSE j \in i..(Len(s) + 1) :
        /\ \A k \in i..(j - 1) : s[k] \in S
        /\ (j = Len(s) + 1 \/ s[j] \notin S)

\* The slice s[i], ..., s[j - 1].
Slice(s, i, j) == SubSeq(s, i, j - 1)

\* The index of the first occurrence of character c at or after i (or Len + 1).
FindChar(s, i, c) ==
    CHOOSE j \in i..(Len(s) + 1) :
        /\ \A k \in i..(j - 1) : s[k] # c
        /\ (j = Len(s) + 1 \/ s[j] = c)

\* The least element of a non-empty set of indices.
Least(S) == CHOOSE i \in S : \A j \in S : i <= j

\* The first index at or after i at which p occurs in s (or Len + 1).
NextOccurrence(s, i, p) ==
    LET hits == {j \in i..Len(s) : StartsWithAt(s, j, p)} IN
    IF hits = {} THEN Len(s) + 1 ELSE Least(hits)

\* String.prototype.replaceAll with a string pattern (p is not empty and r
\* holds no "$"): every occurrence, left to right, without overlap.
RECURSIVE ReplaceFrom(_, _, _, _)
ReplaceFrom(s, i, p, r) ==
    LET j == NextOccurrence(s, i, p) IN
    IF j > Len(s) THEN Slice(s, i, Len(s) + 1)
    ELSE Slice(s, i, j) \o r \o ReplaceFrom(s, j + Len(p), p, r)

replaceAll(s, p, r) == ReplaceFrom(s, 1, p, r)

\* Array.prototype.join
RECURSIVE Join(_, _)
Join(parts, sep) ==
    IF Len(parts) = 0 THEN <<>>
    ELSE IF Len(parts) = 1 THEN parts[1]
    ELSE parts[1] \o sep \o Join(Tail(parts), sep)

\* The value of a string of decimal digits.
RECURSIVE ParseDigits(_)
ParseDigits(ds) ==
    IF Len(ds) = 0 THEN 0
    ELSE 10 * ParseDigits(SubSeq(ds, 1, Len(ds) - 1)) + DigitVal(ds[Len(ds)])

\* Number.prototype.toString of a natural number (below 10^21).
RECURSIVE NatToString(_)
NatToString(n) ==
    IF n < 10 THEN <<DigitChars[n + 1]>>
    ELSE NatToString(n \div 10) \o <<DigitChars[(n % 10) + 1]>>

\* The regular expression [A-Z][0-9]+ matched at index i: the index after the
\* match, or 0 when it does not match there.
AddrEnd(s, i) ==
    IF i >= 1 /\ i + 1 <= Len(s) /\ s[i] \in UpperSet /\ s[i + 1] \in DigitSet
    THEN RunEnd(s, i + 1, DigitSet)
    ELSE 0

(***************************************************************************)
(* inlineSum                                                               *)
(***************************************************************************)
Str_SUM == <<"S", "U", "M">>

Str_uSUM == <<"_", "S", "U", "M">>

Str_sum == <<"s", "u", "m">>

Str_uSUMp == <<"_", "S", "U", "M", "(">>

\* formula.match(/SUM/g).length
CountSUM(s) == Cardinality({i \in 1..Len(s) : StartsWithAt(s, i, Str_SUM)})

\* ([A-Z][0-9]+,?)+ from index j on: the index after the last repetition
\* (j itself when there is none).
RECURSIVE CommaItemsEnd(_, _)
CommaItemsEnd(s, j) ==
    LET e == AddrEnd(s, j) IN
    IF e = 0 THEN j
    ELSE CommaItemsEnd(s, IF e <= Len(s) /\ s[e] = "," THEN e + 1 ELSE e)

\* /_SUM\(([A-Z][0-9]+,?)+\)/ matches at index i.
CommaSumAt(s, i) ==
    /\ StartsWithAt(s, i, Str_uSUMp)
    /\ LET e == CommaItemsEnd(s, i + 5) IN
       e > i + 5 /\ e <= Len(s) /\ s[e] = ")"

\* /_SUM\([A-Z][0-9]+:[A-Z][0-9]+\)/ matched at index i: the index after the
\* match, or 0.
RangeSumEnd(s, i) ==
    IF ~StartsWithAt(s, i, Str_uSUMp) THEN 0
    ELSE LET e1 == AddrEnd(s, i + 5) IN
         IF e1 = 0 \/ e1 > Len(s) \/ s[e1] # ":" THEN 0
         ELSE LET e2 == AddrEnd(s, e1 + 1) IN
              IF e2 = 0 \/ e2 > Len(s) \/ s[e2] # ")" THEN 0
              ELSE e2 + 1

\* formula.match(/_SUM\([A-Z][0-9]+:[A-Z][0-9]+\)/g): the matched strings, in order.
RECURSIVE RangeSumsFrom(_, _)
RangeSumsFrom(s, i) ==
    LET hits == {j \in i..Len(s) : RangeSumEnd(s, j) # 0} IN
    IF hits = {} THEN <<>>
    ELSE LET j == Least(hits) IN
         <<Slice(s, j, RangeSumEnd(s, j))>> \o RangeSumsFrom(s, RangeSumEnd(s, j))

\* letter + startNumber, then "+" + letter + n for n = startNumber + 1 .. endNumber
RECURSIVE NewSum(_, _, _)
NewSum(letter, startNumber, endNumber) ==
    IF endNumber <= startNumber THEN <<letter>> \o NatToString(startNumber)
    ELSE NewSum(letter, startNumber, endNumber - 1)
         \o <<"+", letter>> \o NatToString(endNumber)

\* The loop, were it to go on to the next range where the code returns.
RECURSIVE SumLoopSkipping(_, _, _)
SumLoopSkipping(f, sums, k) ==
    IF k > Len(sums) THEN f
    ELSE LET sum == sums[k]
             contents == SubSeq(sum, 6, Len(sum) - 1)
             colon == FindChar(contents, 1, ":")
             start == Slice(contents, 1, colon)
             end == Slice(contents, colon + 1, Len(contents) + 1)
         IN IF start[1] # end[1] THEN SumLoopSkipping(f, sums, k + 1)
            ELSE LET newSum == NewSum(start[1], ParseDigits(Tail(start)),
                                      ParseDigits(Tail(end)))
                 IN SumLoopSkipping(replaceAll(f, sum, <<"(">> \o newSum \o <<")">>),
                                    sums, k + 1)

\* The for loop over sums, from the k-th on.
RECURSIVE SumLoop(_, _, _)
SumLoop(f, sums, k) ==
    IF k > Len(sums) THEN f
    ELSE LET sum == sums[k]
             contents == SubSeq(sum, 6, Len(sum) - 1)
             colon == FindChar(contents, 1, ":")
             start == Slice(contents, 1, colon)
             end == Slice(contents, colon + 1, Len(contents) + 1)
         IN IF start[1] # end[1] THEN f
            ELSE LET newSum == NewSum(start[1], ParseDigits(Tail(start)),
                                      ParseDigits(Tail(end)))
                 IN SumLoop(replaceAll(f, sum, <<"(">> \o newSum \o <<")">>),
                            sums, k + 1)

inlineSum(f) ==
    IF ~Includes(toUpperCase(f), Str_SUM) THEN f
    ELSE LET g == replaceAll(toUpperCase(f), Str_SUM, Str_uSUM)
             sumsNumber == CountSUM(g)
             commaSums == {i \in 1..Len(g) : CommaSumAt(g, i)}
             sums == RangeSumsFrom(g, 1)
         IN IF Cardinality(commaSums) = sumsNumber
            THEN replaceAll(g, Str_uSUM, Str_sum)
            ELSE IF Len(sums) = 0 \/ Len(sums) # sumsNumber THEN g
            ELSE SumLoop(g, sums, 1)

(***************************************************************************)
(* deRange                                                                 *)
(***************************************************************************)
\* The index after the longest run of characters not in S that starts at i.
RunEndNot(s, i, S) ==
    CHOOSE j \in i..(Len(s) + 1) :
        /\ \A k \in i..(j - 1) : s[k] \notin S
        /\ (j = Len(s) + 1 \/ s[j] \in S)

\* String.prototype.split with a one-character separator.
RECURSIVE Split(_, _)
Split(s, c) ==
    LET j == FindChar(s, 1, c) IN
    IF j > Len(s) THEN <<s>>
    ELSE <<Slice(s, 1, j)>> \o Split(Slice(s, j + 1, Len(s) + 1), c)

\* Number.prototype.toString of an integer.
IntToString(n) == IF n < 0 THEN <<"-">> \o NatToString(0 - n) ELSE NatToString(n)

\* parseInt(s, 10): leading blanks, an optional sign, the digits that follow;
\* NaN when there is no digit.
parseInt(s) ==
    LET i == RunEnd(s, 1, {" "})
        signed == i <= Len(s) /\ s[i] \in {"+", "-"}
        d == IF signed THEN i + 1 ELSE i
        e == RunEnd(s, d, DigitSet)
        n == ParseDigits(Slice(s, d, e))
    IN IF e = d THEN [nan |-> TRUE, val |-> 0]
       ELSE [nan |-> FALSE, val |-> IF signed /\ s[i] = "-" THEN 0 - n ELSE n]

\* The addresses letter + number for number = lo .. hi, in order.
NumberLoop(letter, lo, hi) ==
    [k \in 1..(IF hi >= lo THEN hi - lo + 1 ELSE 0) |-> <<letter>> \o IntToString(lo + k - 1)]

\* The outer loop of deRange, from the letter of place c to that of place cEnd.
RECURSIVE LetterLoop(_, _, _, _)
LetterLoop(c, cEnd, lo, hi) ==
    IF c > cEnd THEN <<>>
    ELSE NumberLoop(CodeChars[c], lo, hi) \o LetterLoop(c + 1, cEnd, lo, hi)

deRange(start, end) ==
    LET numberStart == parseInt(Tail(start))
        numberEnd == parseInt(Tail(end))
    IN IF Len(start) = 0 \/ Len(end) = 0 THEN <<>>
       ELSE IF numberStart.nan \/ numberEnd.nan THEN <<>>
       ELSE LetterLoop(CodeOf(start[1]), CodeOf(end[1]), numberStart.val, numberEnd.val)

(***************************************************************************)
(* evalPercentage                                                          *)
(***************************************************************************)
DigitDotSet == DigitSet \cup {"."}

RECURSIVE Zeros(_)
Zeros(n) == IF n <= 0 THEN <<>> ELSE <<"0">> \o Zeros(n - 1)

\* Number.prototype.toString of n / 10^k (n > 0, below 10^21): the shortest
\* decimal, in exponent notation below 10^-6.
RECURSIVE DecimalToString(_, _)
DecimalToString(n, k) ==
    IF k > 0 /\ n % 10 = 0 THEN DecimalToString(n \div 10, k - 1)
    ELSE LET d == NatToString(n)
             l == Len(d)
         IN IF k = 0 THEN d
            ELSE IF l > k THEN SubSeq(d, 1, l - k) \o <<".">> \o SubSeq(d, l - k + 1, l)
            ELSE IF k - l < 6 THEN <<"0", ".">> \o Zeros(k - l) \o d
            ELSE <<d[1]>> \o (IF l > 1 THEN <<".">> \o Tail(d) ELSE <<>>)
                 \o <<"e", "-">> \o NatToString(k - l + 1)

\* `${parseFloat(run) / 100}` for a run of digits and dots: parseFloat reads
\* the digits, one dot and the digits after it.
PercentValue(run) ==
    LET e1 == RunEnd(run, 1, DigitSet)
        e2 == IF e1 <= Len(run) THEN RunEnd(run, e1 + 1, DigitSet) ELSE e1
        int == Slice(run, 1, e1)
        frac == IF e1 <= Len(run) THEN Slice(run, e1 + 1, e2) ELSE <<>>
        n == ParseDigits(int \o frac)
    IN IF Len(int) + Len(frac) = 0 THEN <<"N", "a", "N">>
       ELSE IF n = 0 THEN <<"0">>
       ELSE DecimalToString(n, Len(frac) + 2)

\* /([0-9.]+)%/ matched at index i: the index after the match, or 0.
PercentEnd(s, i) ==
    IF s[i] \notin DigitDotSet THEN 0
    ELSE LET e == RunEnd(s, i, DigitDotSet) IN
         IF e <= Len(s) /\ s[e] = "%" THEN e + 1 ELSE 0

\* formula.matchAll(/([0-9.]+)%/g): the matched strings, in order.
RECURSIVE PercentMatches(_, _)
PercentMatches(s, i) ==
    LET hits == {j \in i..Len(s) : PercentEnd(s, j) # 0} IN
    IF hits = {} THEN <<>>
    ELSE LET j == Least(hits) IN
         <<Slice(s, j, PercentEnd(s, j))>> \o PercentMatches(s, PercentEnd(s, j))

RECURSIVE PercentLoop(_, _, _)
PercentLoop(f, matches, k) ==
    IF k > Len(matches) THEN f
    ELSE LET m == matches[k] IN
         PercentLoop(replaceAll(f, m, PercentValue(SubSeq(m, 1, Len(m) - 1))),
                     matches, k + 1)

evalPercentage(f) == PercentLoop(f, PercentMatches(f, 1), 1)

(***************************************************************************)
(* inlineSUMPRODUCT                                                        *)
(***************************************************************************)
Str_SUMPRODUCTp == <<"S", "U", "M", "P", "R", "O", "D", "U", "C", "T", "(">>

\* [A-Z][0-9]+ under the i flag, matched at index i: the index after, or 0.
AddrEndCI(s, i) ==
    IF i >= 1 /\ i + 1 <= Len(s) /\ ToUpper(s[i]) \in UpperSet /\ s[i + 1] \in DigitSet
    THEN RunEnd(s, i + 1, DigitSet)
    ELSE 0

\* The SUMPRODUCT pattern matched at index i: the places where its four
\* groups end and the index after the match (e = 0: no match).
SumProductAt(s, i) ==
    LET no == [e |-> 0, e1 |-> 0, e2 |-> 0, e3 |-> 0, e4 |-> 0] IN
    IF ~StartsWithAtCI(s, i, Str_SUMPRODUCTp) THEN no
    ELSE LET e1 == AddrEndCI(s, i + 11) IN
         IF e1 = 0 \/ e1 > Len(s) \/ s[e1] # ":" THEN no
         ELSE LET e2 == AddrEndCI(s, e1 + 1) IN
              IF e2 = 0 \/ e2 > Len(s) \/ s[e2] # "," THEN no
              ELSE LET e3 == AddrEndCI(s, e2 + 1) IN
                   IF e3 = 0 \/ e3 > Len(s) \/ s[e3] # ":" THEN no
                   ELSE LET e4 == AddrEndCI(s, e3 + 1) IN
                        IF e4 = 0 \/ e4 > Len(s) \/ s[e4] # ")" THEN no
                        ELSE [e |-> e4 + 1, e1 |-> e1, e2 |-> e2, e3 |-> e3, e4 |-> e4]

\* formula.matchAll(...): each match with its four groups, in order.
RECURSIVE SumProductMatches(_, _)
SumProductMatches(s, i) ==
    LET hits == {j \in i..Len(s) : SumProductAt(s, j).e # 0} IN
    IF hits = {} THEN <<>>
    ELSE LET j == Least(hits)
             m == SumProductAt(s, j)
         IN <<[all |-> Slice(s, j, m.e),
               startSum |-> Slice(s, j + 11, m.e1),
               endSum |-> Slice(s, m.e1 + 1, m.e2),
               startProd |-> Slice(s, m.e2 + 1, m.e3),
               endProd |-> Slice(s, m.e3 + 1, m.e4)]>>
            \o SumProductMatches(s, m.e)

\* "+sum*prod" for each pair of zip(sumRange, prodRange).
RECURSIVE InlinedSumProd(_, _)
InlinedSumProd(sumRange, prodRange) ==
    IF Len(sumRange) = 0 THEN <<>>
    ELSE <<"+">> \o Head(sumRange) \o <<"*">> \o Head(prodRange)
         \o InlinedSumProd(Tail(sumRange), Tail(prodRange))

RECURSIVE SumProductLoop(_, _, _)
SumProductLoop(f, matches, k) ==
    IF k > Len(matches) THEN f
    ELSE LET m == matches[k]
             sumRange == deRange(m.startSum, m.endSum)
             prodRange == deRange(m.startProd, m.endProd)
         IN IF Len(sumRange) = 0 \/ Len(sumRange) # Len(prodRange) THEN f
            ELSE SumProductLoop(
                     replaceAll(f, m.all,
                                <<"(">> \o InlinedSumProd(sumRange, prodRange) \o <<")">>),
                     matches, k + 1)

inlineSUMPRODUCT(f) == SumProductLoop(f, SumProductMatches(f, 1), 1)

(***************************************************************************)
(* inlineAverage                                                           *)
(***************************************************************************)
Str_AVERAGEp == <<"A", "V", "E", "R", "A", "G", "E", "(">>

ParenSet == {"(", ")"}

\* /AVERAGE\(([^()]+)\)/gi matched at index i: the index after, or 0.
AverageEnd(s, i) ==
    IF ~StartsWithAtCI(s, i, Str_AVERAGEp) THEN 0
    ELSE LET e == RunEndNot(s, i + 8, ParenSet) IN
         IF e > i + 8 /\ e <= Len(s) /\ s[e] = ")" THEN e + 1 ELSE 0

\* formula.matchAll(...): each match with its group, in order.
RECURSIVE AverageMatches(_, _)
AverageMatches(s, i) ==
    LET hits == {j \in i..Len(s) : AverageEnd(s, j) # 0} IN
    IF hits = {} THEN <<>>
    ELSE LET j == Least(hits)
             e == AverageEnd(s, j)
         IN <<[all |-> Slice(s, j, e), group |-> Slice(s, j + 8, e - 1)]>>
            \o AverageMatches(s, e)

\* flatMap over the arguments: a range is replaced by its addresses.
RECURSIVE FlatArgs(_)
FlatArgs(args) ==
    IF Len(args) = 0 THEN <<>>
    ELSE LET arg == Head(args)
             ends == Split(arg, ":")
         IN (IF Len(ends) > 1 THEN deRange(ends[1], ends[2]) ELSE <<arg>>)
            \o FlatArgs(Tail(args))

RECURSIVE AverageLoop(_, _, _)
AverageLoop(f, matches, k) ==
    IF k > Len(matches) THEN f
    ELSE LET args == FlatArgs(Split(matches[k].group, ",")) IN
         AverageLoop(
             replaceAll(f, matches[k].all,
                        <<"(", "(">> \o Join(args, <<"+">>) \o <<")", "/">>
                            \o NatToString(Len(args)) \o <<")">>),
             matches, k + 1)

inlineAverage(f) == AverageLoop(f, AverageMatches(f, 1), 1)

(***************************************************************************)
(* replaceLN                                                               *)
(***************************************************************************)
Str_LNp == <<"L", "N", "(">>

Str_LNhead == <<"(", "1", " ", "/", " ", "l", "o", "g", "1", "0", "(", "2", ".", "7", "1", "8", "2", "8", ")", " ", "*", " ", "l", "o", "g", "1", "0", "(">>

\* /LN\(([^()]+)\)/gi matched at index i: the index after the match, or 0.
LNEnd(s, i) ==
    IF ~StartsWithAtCI(s, i, Str_LNp) THEN 0
    ELSE LET e == RunEndNot(s, i + 3, ParenSet) IN
         IF e > i + 3 /\ e <= Len(s) /\ s[e] = ")" THEN e + 1 ELSE 0

\* The replaceAll of the pattern by "(1 / log10(2.71828) * log10($1))", from
\* index i on.
RECURSIVE ReplaceLNFrom(_, _)
ReplaceLNFrom(s, i) ==
    LET hits == {j \in i..Len(s) : LNEnd(s, j) # 0} IN
    IF hits = {} THEN Slice(s, i, Len(s) + 1)
    ELSE LET j == Least(hits)
             e == LNEnd(s, j)
         IN Slice(s, i, j) \o Str_LNhead \o Slice(s, j + 3, e - 1) \o <<")", ")">>
            \o ReplaceLNFrom(s, e)

replaceLN(f) == ReplaceLNFrom(f, 1)

(***************************************************************************)
(* replacePV                                                               *)
(***************************************************************************)
Str_PVp == <<"P", "V", "(">>

Str_cc1p == <<",", ",", "1", ")">>

\* /PV\(([^,]+),([^,]+),([^,]+)(?:,,1)?\)/gi matched at index i: where the
\* three groups end and the index after the match (e = 0: no match). The
\* first two groups run to the next comma; the third runs to the next comma
\* when ",,1)" follows it, and else gives back to the last ")" it holds.
PVAt(s, i) ==
    LET no == [e |-> 0, c1 |-> 0, c2 |-> 0, c3 |-> 0] IN
    IF ~StartsWithAtCI(s, i, Str_PVp) THEN no
    ELSE LET c1 == FindChar(s, i + 3, ",") IN
         IF c1 = i + 3 \/ c1 > Len(s) THEN no
         ELSE LET c2 == FindChar(s, c1 + 1, ",") IN
              IF c2 = c1 + 1 \/ c2 > Len(s) THEN no
              ELSE LET c3 == FindChar(s, c2 + 1, ",")
                       closes == {k \in (c2 + 2)..(c3 - 1) : s[k] = ")"}
                   IN IF c3 > c2 + 1 /\ StartsWithAt(s, c3, Str_cc1p)
                      THEN [e |-> c3 + 4, c1 |-> c1, c2 |-> c2, c3 |-> c3]
                      ELSE IF closes = {} THEN no
                      ELSE LET k == CHOOSE x \in closes : \A y \in closes : y <= x IN
                           [e |-> k + 1, c1 |-> c1, c2 |-> c2, c3 |-> k]

\* "(-($3)*(1-(1+($1))^(-($2)))/($1))"
PVText(g1, g2, g3) ==
    <<"(", "-", "(">> \o g3 \o <<")", "*", "(", "1", "-", "(", "1", "+", "(">> \o g1
        \o <<")", ")", "^", "(", "-", "(">> \o g2 \o <<")", ")", ")", "/", "(">> \o g1
        \o <<")", ")">>

RECURSIVE ReplacePVFrom(_, _)
ReplacePVFrom(s, i) ==
    LET hits == {j \in i..Len(s) : PVAt(s, j).e # 0} IN
    IF hits = {} THEN Slice(s, i, Len(s) + 1)
    ELSE LET j == Least(hits)
             m == PVAt(s, j)
         IN Slice(s, i, j)
            \o PVText(Slice(s, j + 3, m.c1), Slice(s, m.c1 + 1, m.c2),
                      Slice(s, m.c2 + 1, m.c3))
            \o ReplacePVFrom(s, m.e)

replacePV(f) == ReplacePVFrom(f, 1)

(***************************************************************************)
(* The rewrite passes of getCellData, in its order.                        *)
(***************************************************************************)
translate(f) ==
    replacePV(replaceLN(inlineSum(inlineAverage(inlineSUMPRODUCT(evalPercentage(f))))))

(***************************************************************************)
(* getCellData: the address normalization (lines 133-157).                 *)
(***************************************************************************)
WordSet == UpperSet \cup LowerSet \cup DigitSet \cup {"_"}

IsWordChar(c) == c \in WordSet

\* sheetName.replace(/\W/g, "") + "!"
makePrefix(sheetName) == SelectSeq(sheetName, IsWordChar) \o <<"!">>

Str_metric == <<"$", "{", "m", "e", "t", "r", "i", "c", ":">>

\* "${metric:$1}"
Placeholder(ref) == Str_metric \o ref \o <<"}">>

\* /(?<!!)([A-Z][0-9]+)/ matched at index i: the index after the match, or 0.
BareAddrEnd(s, i) ==
    IF i > 1 /\ s[i - 1] = "!" THEN 0 ELSE AddrEnd(s, i)

\* formula.replaceAll(/(?<!!)([A-Z][0-9]+)/g, prefix + "$1"), from index i on.
RECURSIVE PrefixBareFrom(_, _, _)
PrefixBareFrom(s, i, prefix) ==
    LET hits == {j \in i..Len(s) : BareAddrEnd(s, j) # 0} IN
    IF hits = {} THEN Slice(s, i, Len(s) + 1)
    ELSE LET j == Least(hits)
             e == BareAddrEnd(s, j)
         IN Slice(s, i, j) \o prefix \o Slice(s, j, e) \o PrefixBareFrom(s, e, prefix)

\* formula.replaceAll(new RegExp(p, "gi"), r) for a pattern p that holds no
\* character special to regular expressions, from index i on.
RECURSIVE ReplaceCIFrom(_, _, _, _)
ReplaceCIFrom(s, i, p, r) ==
    LET hits == {j \in i..Len(s) : StartsWithAtCI(s, j, p)} IN
    IF hits = {} THEN Slice(s, i, Len(s) + 1)
    ELSE LET j == Least(hits) IN
         Slice(s, i, j) \o r \o ReplaceCIFrom(s, j + Len(p), p, r)

\* new RegExp(`(${prefix}[A-Z][0-9]+)`) matched at index i: the index after, or 0.
PrefixedAddrEnd(s, i, prefix) ==
    IF StartsWithAt(s, i, prefix) THEN AddrEnd(s, i + Len(prefix)) ELSE 0

\* formula.replaceAll(new RegExp(`(${prefix}[A-Z][0-9]+)`, "g"), "${metric:$1}"),
\* from index i on (prefix = <<>>: the pattern of the single-sheet branch).
RECURSIVE WrapFrom(_, _, _)
WrapFrom(s, i, prefix) ==
    LET hits == {j \in i..Len(s) : PrefixedAddrEnd(s, j, prefix) # 0} IN
    IF hits = {} THEN Slice(s, i, Len(s) + 1)
    ELSE LET j == Least(hits)
             e == PrefixedAddrEnd(s, j, prefix)
         IN Slice(s, i, j) \o Placeholder(Slice(s, j, e)) \o WrapFrom(s, e, prefix)

\* String.prototype.replace with a string pattern: the first occurrence only.
replaceFirst(s, p, r) ==
    LET j == NextOccurrence(s, 1, p) IN
    IF j > Len(s) THEN s
    ELSE Slice(s, 1, j) \o r \o Slice(s, j + Len(p), Len(s) + 1)

\* The sheet name as the loop looks for it: quoted when it holds a blank.
QuotedName(sheetName) ==
    IF Includes(sheetName, <<" ">>)
    THEN <<"'">> \o replaceFirst(sheetName, <<"'">>, <<"'", "'">>) \o <<"'">>
    ELSE sheetName

\* for (let sheetName of sheetNames), from the k-th sheet name on.
RECURSIVE SheetLoop(_, _, _)
SheetLoop(f, names, k) ==
    IF k > Len(names) THEN f
    ELSE LET sheetName == QuotedName(names[k])
             newSheetPrefix == makePrefix(sheetName)
             renamed == ReplaceCIFrom(f, 1, sheetName \o <<"!">>, newSheetPrefix)
         IN SheetLoop(WrapFrom(renamed, 1, newSheetPrefix), names, k + 1)

\* The formula after lines 133-157, for a cell of sheet `sheetName`.
normalize(f, sheetName, names) ==
    IF Len(names) > 1
    THEN SheetLoop(PrefixBareFrom(f, 1, makePrefix(sheetName)), names, 1)
    ELSE WrapFrom(f, 1, <<>>)

\* The address after lines 97 and 136.
normalizeAddress(address, sheetName, names) ==
    IF Len(names) > 1 THEN makePrefix(sheetName) \o address ELSE address

(***************************************************************************)
(* getCellData: text, value and description (lines 110-122), the formula   *)
(* (lines 123-131).  A cell of the workbook is [text, formula]: text is the *)
(* text of lines 98-109 (the display text, or the number as a string),     *)
(* formula is cell.formula ("" when the cell has none).                    *)
(***************************************************************************)
\* String.prototype.trim, for blanks.
trim(s) ==
    LET keep == {i \in 1..Len(s) : s[i] # " "} IN
    IF keep = {} THEN <<>>
    ELSE SubSeq(s, Least(keep), CHOOSE i \in keep : \A j \in keep : j <= i)

\* /^-?\s?\d+\.?\d*%$/.test(text)
IsPercentText(t) ==
    LET a == IF Len(t) >= 1 /\ t[1] = "-" THEN 2 ELSE 1
        b == IF a <= Len(t) /\ t[a] = " " THEN a + 1 ELSE a
        c == RunEnd(t, b, DigitSet)
        d == IF c <= Len(t) /\ t[c] = "." THEN c + 1 ELSE c
        e == RunEnd(t, d, DigitSet)
    IN c > b /\ e = Len(t) /\ t[e] = "%"

\* (parseFloat(text) / 100).toString() for a text IsPercentText accepts.
PercentText(t) ==
    IF t[1] # "-" THEN PercentValue(SubSeq(t, 1, Len(t) - 1))
    ELSE IF t[2] = " " THEN <<"N", "a", "N">>
    ELSE LET v == PercentValue(SubSeq(t, 2, Len(t) - 1)) IN
         IF v = <<"0">> THEN v ELSE <<"-">> \o v

\* !isNaN(text) for a text with no exponent, no radix prefix and no
\* "Infinity": blanks, or a sign, digits and at most one decimal point.
IsNumeric(t) ==
    LET u == trim(t)
        a == IF Len(u) >= 1 /\ u[1] \in {"+", "-"} THEN 2 ELSE 1
        c == RunEnd(u, a, DigitSet)
        d == IF c <= Len(u) /\ u[c] = "." THEN c + 1 ELSE c
        e == RunEnd(u, d, DigitSet)
    IN \/ Len(u) = 0
       \/ (e = Len(u) + 1 /\ (c - a) + (e - d) > 0)

\* The text after lines 110-118.
cellText(text) ==
    LET t1 == trim(text)
        t2 == IF IsPercentText(t1) THEN PercentText(t1) ELSE t1
        t3 == replaceAll(t2, <<",">>, <<".">>)
    IN IF IsNumeric(t3) THEN t3 ELSE t2

Str_eqHYPERLINK == <<"=", "H", "Y", "P", "E", "R", "L", "I", "N", "K">>

IsNotDollar(c) == c # "$"

\* The formula after lines 123-131.
cellFormula(raw) ==
    LET f1 == IF Len(raw) > 0 THEN <<"=">> \o raw ELSE <<>>
        f2 == IF StartsWithAt(f1, 1, Str_eqHYPERLINK) THEN <<>> ELSE f1
    IN translate(SelectSeq(f2, IsNotDollar))

getCellData(cell, address, sheetName, names, r, c) ==
    LET text == cellText(cell.text) IN
    [address |-> normalizeAddress(address, sheetName, names),
     value |-> IF IsNumeric(text) THEN text ELSE <<>>,
     description |-> IF IsNumeric(text) THEN <<>> ELSE text,
     formula |-> normalize(cellFormula(cell.formula), sheetName, names),
     rowNum |-> r,
     colNum |-> c]

(***************************************************************************)
(* The states no cell has been read in, and no function has been applied in *)
(***************************************************************************)
NoCell == <<>>

IdleGrid ==
    /\ sheetNames = <<>>
    /\ sheetIdx = 0
    /\ rowNum = 0
    /\ lastCol = 0
    /\ previousCell = NoCell
    /\ maxColumn = 0
    /\ startColumn = 0
    /\ cells = <<>>
    /\ step = <<>>
    /\ visited = <<>>
    /\ graph = [metrics |-> <<>>, guesstimates |-> <<>>]
    /\ lines = <<>>

(***************************************************************************)
(* inlineSum as a pure function: the formulas it is applied to are "="     *)
(* followed by up to MaxTerms of SumTerms, joined by "+".                  *)
(***************************************************************************)
MaxTerms == 3

SumTerms == <<
    <<"S", "U", "M", "(", "A", "1", ":", "A", "3", ")">>,
    <<"s", "u", "m", "(", "b", "9", ":", "b", "1", "1", ")">>,
    <<"S", "U", "M", "(", "A", "1", ":", "B", "2", ")">>,
    <<"S", "U", "M", "(", "A", "1", ",", "B", "2", ")">>,
    <<"x">>,
    <<"S", "U", "M", "(", "A", "3", ":", "A", "1", ")">>,
    <<"S", "U", "M", "I", "F", "(", "A", "1", ",", "1", ")">> >>

FormulasOf(terms, n) ==
    { <<"=">> \o Join(t, <<"+">>) :
        t \in UNION { [1..k -> {terms[i] : i \in DOMAIN terms}] : k \in 1..n } }

SumFormulas == FormulasOf(SumTerms, MaxTerms)

InitSum ==
    /\ pc = "inlineSum"
    /\ formula \in SumFormulas
    /\ result = <<>>
    /\ result2 = <<>>
    /\ IdleGrid

ApplyInlineSum ==
    /\ pc = "inlineSum"
    /\ result' = inlineSum(formula)
    /\ pc' = "done"
    /\ UNCHANGED <<formula, result2>>
    /\ UNCHANGED gridVars

NextSum == ApplyInlineSum

SpecSum == InitSum /\ [][NextSum]_vars

(***************************************************************************)
(* The rewrite passes run on a formula, and run again on their own output. *)
(***************************************************************************)
TranslateTerms == <<
    <<"A", "1", "*", "5", "0", "%">>,
    <<"5", "%", "%">>,
    <<"S", "U", "M", "I", "F", "(", "A", "1", ",", "1", ")">>,
    <<"x">>,
    <<"S", "U", "M", "(", "A", "1", ":", "A", "2", ")">>,
    <<"A", "V", "E", "R", "A", "G", "E", "(", "A", "1", ":", "A", "2", ",", "B", "1", ")">>,
    <<"L", "N", "(", "5", ")">>,
    <<"P", "V", "(", "0", ".", "1", ",", "1", "0", ",", "1", "0", "0", ")">>,
    <<"S", "U", "M", "P", "R", "O", "D", "U", "C", "T", "(", "A", "1", ":", "A", "2", ",", "B", "1", ":", "B", "2", ")">> >>

TranslateFormulas == FormulasOf(TranslateTerms, MaxTerms)

InitTranslate ==
    /\ pc = "translate"
    /\ formula \in TranslateFormulas
    /\ result = <<>>
    /\ result2 = <<>>
    /\ IdleGrid

Translate ==
    /\ pc = "translate"
    /\ result' = translate(formula)
    /\ pc' = "retranslate"
    /\ UNCHANGED <<formula, result2>>
    /\ UNCHANGED gridVars

Retranslate ==
    /\ pc = "retranslate"
    /\ result2' = translate(result)
    /\ pc' = "done"
    /\ UNCHANGED <<formula, result>>
    /\ UNCHANGED gridVars

NextTranslate == Translate \/ Retranslate

SpecTranslate == InitTranslate /\ [][NextTranslate]_vars

(***************************************************************************)
(* makeGraph                                                               *)
(***************************************************************************)
NameLimit == 20

NameKept == 17

\* The Metric, were the name never shortened.
MetricUncapped(cell) ==
    [id |-> cell.address,
     readableId |-> cell.address,
     name |-> cell.description,
     location |-> [row |-> cell.rowNum - 1, column |-> cell.colNum - 1]]

Metric(cell) ==
    LET name == cell.description IN
    [id |-> cell.address,
     readableId |-> cell.address,
     name |-> IF Len(name) > NameLimit /\ cell.value # <<>>
              THEN SubSeq(name, 1, NameKept) \o <<".", ".", ".">>
              ELSE name,
     location |-> [row |-> cell.rowNum - 1, column |-> cell.colNum - 1]]

\* The Guesstimate, were its type read off the value instead of the formula.
GuesstimateByValue(cell) ==
    [metric |-> cell.address,
     expression |-> IF cell.formula # <<>> THEN cell.formula ELSE cell.value,
     guesstimateType |-> IF cell.value = <<>> THEN "FUNCTION" ELSE "POINT",
     description |-> IF Len(cell.description) > NameLimit /\ cell.value # <<>>
                     THEN cell.description ELSE <<>>]

Guesstimate(cell) ==
    [metric |-> cell.address,
     expression |-> IF cell.formula # <<>> THEN cell.formula ELSE cell.value,
     guesstimateType |-> IF cell.formula # <<>> THEN "FUNCTION" ELSE "POINT",
     description |-> IF Len(cell.description) > NameLimit /\ cell.value # <<>>
                     THEN cell.description ELSE <<>>]

\* One Metric and one Guesstimate per cell, in the order of Object.values.
makeGraph(cs) ==
    [metrics |-> [i \in 1..Len(cs) |-> Metric(cs[i])],
     guesstimates |-> [i \in 1..Len(cs) |-> Guesstimate(cs[i])]]

(***************************************************************************)
(* gridToMermaidGraph                                                      *)
(***************************************************************************)
LabelLimit == 40

LabelKept == 37

\* The characters nodeText keeps: [ a-zA-Z0-9,.\-$%]
SafeSet == UpperSet \cup LowerSet \cup DigitSet \cup {" ", ",", ".", "-", "$", "%"}

nodeText(cell) ==
    LET description == IF Len(cell.description) > LabelLimit
                       THEN SubSeq(cell.description, 1, LabelKept) \o <<".", ".", ".">>
                       ELSE cell.description
    IN IF Len(description) = 0 THEN <<>>
       ELSE cell.address \o <<"[">>
            \o [k \in 1..Len(description) |->
                   IF description[k] \in SafeSet THEN description[k] ELSE "_"]
            \o <<"]">>

\* grid.cells[address]
CellAt(cs, address) == cs[CHOOSE k \in 1..Len(cs) : cs[k].address = address]

\* addresses.filter(...): the addresses, in key order, that the formula holds
\* followed by "}".
MatchedAddresses(cs, cell) ==
    LET IsMatched(c) == Includes(cell.formula, c.address \o <<"}">>)
        matched == SelectSeq(cs, IsMatched)
    IN [k \in 1..Len(matched) |-> matched[k].address]

EdgeLine(from, to) == from \o <<" ", "-", "-", ">", " ">> \o to

\* The inner loop over matchedAddresses, from the m-th on: the lines pushed
\* and the addresses seen.
RECURSIVE MatchLoop(_, _, _, _, _)
MatchLoop(cs, cell, matched, m, acc) ==
    IF m > Len(matched) THEN acc
    ELSE LET address == matched[m]
             l1 == IF address \notin acc.seen
                   THEN <<nodeText(CellAt(cs, address))>> ELSE <<>>
             l2 == IF cell.address \notin acc.seen THEN <<nodeText(cell)>> ELSE <<>>
         IN MatchLoop(cs, cell, matched, m + 1,
                [seen |-> acc.seen \cup {address, cell.address},
                 lines |-> acc.lines \o l1 \o l2 \o <<EdgeLine(address, cell.address)>>])

\* The outer loop over Object.values(grid.cells), from the k-th cell on.
RECURSIVE CellLoop(_, _, _)
CellLoop(cs, k, acc) ==
    IF k > Len(cs) THEN acc
    ELSE IF cs[k].formula = <<>> THEN CellLoop(cs, k + 1, acc)
    ELSE CellLoop(cs, k + 1,
                  MatchLoop(cs, cs[k], MatchedAddresses(cs, cs[k]), 1, acc))

\* The lines gridToMermaidGraph joins under the "graph LR" header.
gridToMermaidGraph(cs) == CellLoop(cs, 1, [seen |-> {}, lines |-> <<>>]).lines

(***************************************************************************)
(* makeGrid over a workbook read cell by cell, then makeGraph and          *)
(* gridToMermaidGraph over the grid (Upload.svelte's generateScript).      *)
(***************************************************************************)
\* The cells one workbook holds, at most.
MaxCells == 3

\* The sheet names of the workbooks.
Workbooks == {
    <<<<"S">>>>,
    <<<<"S">>, <<"T">>>>,
    <<<<"S">>, <<"T">>, <<"U">>>> }

\* The spreadsheet rows and columns the cells of a workbook stand in: two
\* rows of three columns a sheet, one row of two columns in the workbook of
\* three sheets.
Rows(names) == IF Len(names) > 2 THEN {1} ELSE {1, 2}

Cols(names) == IF Len(names) > 2 THEN {1, 2} ELSE {1, 2, 3}

LongLabel == <<"T", "o", "t", "a", "l", " ", "r", "e", "v", "e", "n", "u", "e", " ", "o", "f", " ", "a", "l", "l", " ", "r", "e", "g", "i", "o", "n", "s", " ", "i", "n", " ", "t", "h", "e", " ", "p", "e", "r", "i", "o", "d">>

\* The cells: a label, a long label, a number, a formula not yet computed.
CellInputs == {
    [text |-> <<"R", "e", "v">>, formula |-> <<>>],
    [text |-> LongLabel, formula |-> <<>>],
    [text |-> <<"1", "0", "0">>, formula |-> <<>>],
    [text |-> <<>>, formula |-> <<"A", "1", "+", "B", "1">>] }

\* cell.fullAddress.address of the cell at row r, column c (c <= 26).
AddressOf(r, c) == <<UpperChars[c]>> \o NatToString(r)

\* The deletion, were every label cell of the grid dropped with the one named.
DeleteLabels(cs, address) ==
    LET Kept(c) == c.address # address /\ (c.value # <<>> \/ c.formula # <<>>)
    IN SelectSeq(cs, Kept)

\* delete grid.cells[address]
DeleteCell(cs, address) ==
    LET Other(c) == c.address # address IN SelectSeq(cs, Other)

\* grid.cells[cell.address] = cell: in place when the key exists, else last.
SetCell(cs, cell) ==
    IF \E k \in 1..Len(cs) : cs[k].address = cell.address
    THEN [k \in 1..Len(cs) |-> IF cs[k].address = cell.address THEN cell ELSE cs[k]]
    ELSE Append(cs, cell)

\* The test of lines 72-79.
IsLabelOf(prev, cellData) ==
    /\ (cellData.value # <<>> \/ cellData.formula # <<>>)
    /\ prev # NoCell
    /\ prev[1].colNum = cellData.colNum - 1
    /\ prev[1].formula = <<>>
    /\ prev[1].description # <<>>
    /\ prev[1].value = <<>>

\* The column kept, were it the latest instead of the greatest.
Latest(a, b) == b

\* Math.max
Max(a, b) == IF a >= b THEN a ELSE b

Init ==
    /\ pc = "makeGrid"
    /\ sheetNames \in Workbooks
    /\ sheetIdx = 0
    /\ rowNum = 0
    /\ lastCol = 0
    /\ previousCell = NoCell
    /\ maxColumn = 0
    /\ startColumn = 0
    /\ cells = <<>>
    /\ step = <<>>
    /\ visited = <<>>
    /\ graph = [metrics |-> <<>>, guesstimates |-> <<>>]
    /\ lines = <<>>
    /\ formula = <<>>
    /\ result = <<>>
    /\ result2 = <<>>

\* workbook.eachSheet calls back for the next sheet.
NextSheet ==
    /\ pc = "makeGrid"
    /\ sheetIdx < Len(sheetNames)
    /\ sheetIdx' = sheetIdx + 1
    /\ startColumn' = maxColumn + 1
    /\ rowNum' = 0
    /\ lastCol' = 0
    /\ previousCell' = NoCell
    /\ UNCHANGED <<pc, sheetNames, maxColumn, cells, step, visited, graph, lines>>
    /\ UNCHANGED fnVars

\* sheet.eachRow calls back for a later row of the sheet.
NextRow ==
    /\ pc = "makeGrid"
    /\ sheetIdx >= 1
    /\ \E r \in Rows(sheetNames) :
          /\ r > rowNum
          /\ rowNum' = r
    /\ lastCol' = 0
    /\ previousCell' = NoCell
    /\ UNCHANGED <<pc, sheetNames, sheetIdx, maxColumn, startColumn, cells, step,
                   visited, graph, lines>>
    /\ UNCHANGED fnVars

\* row.eachCell calls back for a later cell of the row (lines 67-84).
VisitCell ==
    /\ pc = "makeGrid"
    /\ rowNum >= 1
    /\ Len(visited) < MaxCells
    /\ \E c \in Cols(sheetNames), cell \in CellInputs :
          /\ c > lastCol
          /\ LET colNum == c + startColumn
                 merge(read) == IsLabelOf(previousCell, read)
             IN \E read \in {getCellData(cell, AddressOf(rowNum, c), sheetNames[sheetIdx],
                                          sheetNames, rowNum, colNum)} :
                \E cellData \in {IF merge(read)
                                 THEN [read EXCEPT !.description = previousCell[1].description]
                                 ELSE read} :
                   /\ maxColumn' = Max(maxColumn, colNum)
                   /\ cells' = SetCell(IF merge(read)
                                       THEN DeleteCell(cells, previousCell[1].address)
                                       ELSE cells,
                                       cellData)
                   /\ previousCell' = <<cellData>>
                   /\ lastCol' = c
                   /\ step' = <<[merged |-> merge(read), prev |-> previousCell,
                                 cur |-> cellData,
                                 before |-> [k \in 1..Len(cells) |-> cells[k].address]]>>
                   /\ visited' = Append(visited,
                                        [sheet |-> sheetIdx, row |-> rowNum, col |-> c,
                                         cell |-> cellData])
    /\ UNCHANGED <<pc, sheetNames, sheetIdx, rowNum, startColumn, graph, lines>>
    /\ UNCHANGED fnVars

\* makeGrid returns after the last sheet, and generateScript goes on with
\* gridToGuesstimateScript and gridToMermaidGraph over the grid.
GenerateScript ==
    /\ pc = "makeGrid"
    /\ sheetIdx = Len(sheetNames)
    /\ graph' = makeGraph(cells)
    /\ lines' = gridToMermaidGraph(cells)
    /\ pc' = "done"
    /\ UNCHANGED <<sheetNames, sheetIdx, rowNum, lastCol, previousCell, maxColumn,
                   startColumn, cells, step, visited>>
    /\ UNCHANGED fnVars

Next == NextSheet \/ NextRow \/ VisitCell \/ GenerateScript

Spec == Init /\ [][Next]_vars

(***************************************************************************)
(* getCellData applied to one formula cell of a workbook of several sheets. *)
(***************************************************************************)
\* The references one formula holds, at most.
MaxRefs == 2

\* The sheet names of the workbooks.
NormWorkbooks == {
    <<<<"S">>, <<"T">>>>,
    <<<<"S">>, <<"T", "S">>>>,
    <<<<"S", "T">>, <<"S", " ", "T">>>> }

\* References: bare, and qualified by a sheet name.
RefTerms == <<
    <<"A", "1">>,
    <<"B", "2">>,
    <<"S", "!", "A", "1">>,
    <<"T", "!", "B", "2">>,
    <<"T", "S", "!", "A", "1">>,
    <<"S", "T", "!", "B", "2">>,
    <<"'", "S", " ", "T", "'", "!", "A", "1">> >>

\* The formulas of at most n references added up (cell.formula has no "=").
RefFormulasOf(terms, n) ==
    { Join(t, <<"+">>) :
        t \in UNION { [1..k -> {terms[i] : i \in DOMAIN terms}] : k \in 1..n } }

InitNorm ==
    /\ pc = "getCellData"
    /\ sheetNames \in NormWorkbooks
    /\ sheetIdx \in 1..2
    /\ formula \in RefFormulasOf(RefTerms, MaxRefs)
    /\ result = <<>>
    /\ result2 = <<>>
    /\ rowNum = 0
    /\ lastCol = 0
    /\ previousCell = NoCell
    /\ maxColumn = 0
    /\ startColumn = 0
    /\ cells = <<>>
    /\ step = <<>>
    /\ visited = <<>>
    /\ graph = [metrics |-> <<>>, guesstimates |-> <<>>]
    /\ lines = <<>>

\* getCellData reads cell C3 of the sheet, which holds the formula.
ReadFormulaCell ==
    /\ pc = "getCellData"
    /\ result' = getCellData([text |-> <<>>, formula |-> formula], AddressOf(3, 3),
                             sheetNames[sheetIdx], sheetNames, 3, 3).formula
    /\ pc' = "read"
    /\ UNCHANGED <<formula, result2>>
    /\ UNCHANGED gridVars

NextNorm == ReadFormulaCell

SpecNorm == InitNorm /\ [][NextNorm]_vars

(***************************************************************************)
(* The shapes of SUM calls, read off the upper-cased formula.               *)
(***************************************************************************)
Str_SUMp == <<"S", "U", "M", "(">>

\* The indices at which "SUM" occurs, letter case ignored.
SumOccurrences(f) == {i \in 1..Len(f) : StartsWithAtCI(f, i, Str_SUM)}

\* A call SUM(X1,Y2,...) of single addresses starts at index i of u.
IsCommaCall(u, i) ==
    /\ StartsWithAt(u, i, Str_SUMp)
    /\ LET e == CommaItemsEnd(u, i + 4) IN
       e > i + 4 /\ e <= Len(u) /\ u[e] = ")"

\* The index after a call SUM(Xa:Yb) that starts at index i of u, or 0.
RangeCallEnd(u, i) ==
    IF ~StartsWithAt(u, i, Str_SUMp) THEN 0
    ELSE LET e1 == AddrEnd(u, i + 4) IN
         IF e1 = 0 \/ e1 > Len(u) \/ u[e1] # ":" THEN 0
         ELSE LET e2 == AddrEnd(u, e1 + 1) IN
              IF e2 = 0 \/ e2 > Len(u) \/ u[e2] # ")" THEN 0
              ELSE e2 + 1

IsRangeCall(u, i) == RangeCallEnd(u, i) # 0

\* For a range call at index i of u: the column letters and row numbers of
\* its two endpoints.
RangeOf(u, i) ==
    LET e1 == AddrEnd(u, i + 4)
        e2 == AddrEnd(u, e1 + 1)
    IN [letter1 |-> u[i + 4], a |-> ParseDigits(Slice(u, i + 5, e1)),
        letter2 |-> u[e1 + 1], b |-> ParseDigits(Slice(u, e1 + 2, e2))]

IsSameColumnCall(u, i) ==
    IsRangeCall(u, i) /\ RangeOf(u, i).letter1 = RangeOf(u, i).letter2

IsCrossColumnCall(u, i) ==
    IsRangeCall(u, i) /\ RangeOf(u, i).letter1 # RangeOf(u, i).letter2

\* "(Xa+X(a+1)+...+Xb)": each address of the column once, in ascending order
\* (Xa alone when b <= a).
Expansion(letter, a, b) ==
    <<"(">> \o Join([k \in 1..(IF b > a THEN b - a + 1 ELSE 1) |->
                        <<letter>> \o NatToString(a + k - 1)], <<"+">>)
           \o <<")">>

\* f with the call at each index of `at` (range calls of f) replaced by its
\* expansion, each "SUM" at an index of `renamed` by "_SUM", the rest kept.
RECURSIVE Rewritten(_, _, _, _)
Rewritten(f, i, at, renamed) ==
    LET hits == {j \in i..Len(f) : j \in at \cup renamed} IN
    IF hits = {} THEN Slice(f, i, Len(f) + 1)
    ELSE LET j == Least(hits) IN
         IF j \in at
         THEN LET r == RangeOf(f, j) IN
              Slice(f, i, j) \o Expansion(r.letter1, r.a, r.b)
                  \o Rewritten(f, RangeCallEnd(f, j), at, renamed)
         ELSE Slice(f, i, j) \o <<"_", f[j]>> \o Rewritten(f, j + 1, at, renamed)

\* The formula is one inlineSum does not resolve: it has a SUM, its SUMs are
\* not all comma lists, and they are not all same-column ranges.
Unsupported(f) ==
    LET u == toUpperCase(f) IN
    /\ SumOccurrences(f) # {}
    /\ \E i \in SumOccurrences(f) : ~IsCommaCall(u, i)
    /\ \E i \in SumOccurrences(f) : ~IsSameColumnCall(u, i)

\* What inlineSum makes of an unsupported formula.
UnsupportedResult(f) ==
    LET u == toUpperCase(f)
        occ == SumOccurrences(f)
        cross == {i \in occ : IsCrossColumnCall(u, i)}
        allRanges == \A i \in occ : IsRangeCall(u, i)
        firstCross == CHOOSE i \in cross : \A j \in cross : i <= j
        early == {Slice(u, i, RangeCallEnd(u, i)) :
                     i \in {j \in occ : j < firstCross /\ IsSameColumnCall(u, j)}}
        expanded == IF allRanges
                    THEN {i \in occ : /\ IsSameColumnCall(u, i)
                                      /\ Slice(u, i, RangeCallEnd(u, i)) \in early}
                    ELSE {}
    IN Rewritten(u, 1, expanded, occ \ expanded)

AllSameColumnRanges(f) ==
    /\ SumOccurrences(f) # {}
    /\ \A i \in SumOccurrences(f) :
          /\ IsSameColumnCall(f, i)
          /\ RangeOf(f, i).a <= RangeOf(f, i).b

C10_RangeSumExpanded ==
    (pc = "done" /\ AllSameColumnRanges(formula)) =>
        result = Rewritten(formula, 1, SumOccurrences(formula), {})

(***************************************************************************)
(* C5: for a formula with no call to a recognized function (SUMPRODUCT,    *)
(* AVERAGE, SUM, LN, PV), the rewrite passes run on their own output       *)
(* return it unchanged: translate(translate(f)) = translate(f).            *)
(***************************************************************************)
RecognizedNames == {
    <<"S", "U", "M", "P", "R", "O", "D", "U", "C", "T">>,
    <<"A", "V", "E", "R", "A", "G", "E">>,
    <<"S", "U", "M">>,
    <<"L", "N">>,
    <<"P", "V">> }

IdentifierSet == UpperSet \cup LowerSet \cup DigitSet \cup {"_", "."}

\* A call of the function `name` starts at index i of f: the name, not the
\* tail of a longer name, followed by "(".
IsCallOf(f, i, name) ==
    /\ StartsWithAtCI(f, i, name \o <<"(">>)
    /\ (i = 1 \/ f[i - 1] \notin IdentifierSet)

HasRecognizedCall(f) ==
    \E i \in 1..Len(f) : \E name \in RecognizedNames : IsCallOf(f, i, name)

C5_TranslateIdempotent ==
    (pc = "done" /\ ~HasRecognizedCall(formula)) => result2 = result

(***************************************************************************)
(* The grid as the claims read it.                                         *)
(***************************************************************************)
Addresses(cs) == {cs[k].address : k \in 1..Len(cs)}

\* Of two cells visited one after the other: they stand side by side in one
\* row, the later has a value or a formula, the earlier is a bare label.
LabelBeforeValue(prev, cur) ==
    /\ prev.sheet = cur.sheet
    /\ prev.row = cur.row
    /\ prev.col = cur.col - 1
    /\ (cur.cell.value # <<>> \/ cur.cell.formula # <<>>)
    /\ prev.cell.formula = <<>>
    /\ prev.cell.description # <<>>
    /\ prev.cell.value = <<>>

(***************************************************************************)
(* C1: when the cell just visited has a value or a formula and the cell    *)
(* visited before it, in the same row at column - 1, is a bare label, then *)
(* after the step the label's address is absent from grid.cells, the       *)
(* current cell is present with the label's description, and no other cell *)
(* was removed by the step.                                                *)
(***************************************************************************)
C1_LabelMerged ==
    (Len(visited) >= 2 /\ LabelBeforeValue(visited[Len(visited) - 1], visited[Len(visited)]))
    => LET prev == visited[Len(visited) - 1].cell
           cur == visited[Len(visited)].cell
       IN /\ prev.address \notin Addresses(cells)
          /\ \E k \in 1..Len(cells) :
                /\ cells[k].address = cur.address
                /\ cells[k].description = prev.description
          /\ \A k \in 1..Len(step[1].before) :
                step[1].before[k] # prev.address => step[1].before[k] \in Addresses(cells)

\* Two labels and a value in one row: the second label was merged into the
\* value, the first label stays.
C1_Witness ==
    /\ Len(visited) = 3
    /\ LabelBeforeValue(visited[2], visited[3])
    /\ visited[1].sheet = visited[2].sheet
    /\ visited[1].row = visited[2].row
    /\ visited[1].col = visited[2].col - 1
    /\ visited[1].cell.description # <<>>
    /\ Len(cells) = 2
    /\ cells[1].address = visited[1].cell.address
    /\ cells[2].address = visited[3].cell.address
    /\ cells[2].description = visited[2].cell.description

(***************************************************************************)
(* C2: the output of gridToMermaidGraph holds at most one node declaration *)
(* line ADDRESS[label] per address, and exactly one edge line "X --> Y"    *)
(* for each pair of cells X, Y such that Y's formula contains X's address  *)
(* followed by "}" (and none for any other pair).                          *)
(***************************************************************************)
IsNodeLineOf(line, address) == StartsWithAt(line, 1, address \o <<"[">>)

EdgeLinesAreExact ==
    \A x, y \in 1..Len(cells) :
        Cardinality({i \in 1..Len(lines) :
                        lines[i] = EdgeLine(cells[x].address, cells[y].address)})
        = IF /\ cells[y].formula # <<>>
             /\ Includes(cells[y].formula, cells[x].address \o <<"}">>)
          THEN 1 ELSE 0

C2_NodesDeclaredOnce ==
    pc = "done" =>
        /\ \A k \in 1..Len(cells) :
              Cardinality({i \in 1..Len(lines) : IsNodeLineOf(lines[i], cells[k].address)}) <= 1
        /\ EdgeLinesAreExact

(***************************************************************************)
(* C6 (as stated): every Metric produced by makeGraph has a name of at     *)
(* most 20 characters.                                                     *)
(***************************************************************************)
C6_NameAtMost20 ==
    pc = "done" => \A k \in 1..Len(graph.metrics) : Len(graph.metrics[k].name) <= 20

(***************************************************************************)
(* C6 (amended): the Metric of a cell with a non-empty value has a name of *)
(* at most 20 characters (the first 17 characters of the description and   *)
(* "..." when the description has more than 20); the Metric of a cell with *)
(* an empty value has the description itself as its name.                  *)
(***************************************************************************)
C6_NameCappedWhenValued ==
    pc = "done" =>
        /\ Len(graph.metrics) = Len(cells)
        /\ \A k \in 1..Len(cells) :
              LET name == graph.metrics[k].name IN
              IF cells[k].value # <<>>
              THEN /\ Len(name) <= 20
                   /\ Len(cells[k].description) > 20 =>
                         name = SubSeq(cells[k].description, 1, 17) \o <<".", ".", ".">>
                   /\ Len(cells[k].description) <= 20 => name = cells[k].description
              ELSE name = cells[k].description

\* A grid with a long description on a cell with a value, shortened, and one
\* on a cell with no value, kept whole.
C6_Witness ==
    /\ pc = "done"
    /\ \E k \in 1..Len(cells) :
          /\ cells[k].value # <<>>
          /\ Len(cells[k].description) > 20
          /\ Len(graph.metrics[k].name) = 20
    /\ \E k \in 1..Len(cells) :
          /\ cells[k].value = <<>>
          /\ Len(graph.metrics[k].name) > 20

(***************************************************************************)
(* C7: makeGraph returns metrics and guesstimates of equal length, one     *)
(* pair per cell of grid.cells; for every index the guesstimate's metric   *)
(* and the metric's id are the cell's address, the guesstimateType is      *)
(* "FUNCTION" if and only if the cell's formula is non-empty (else         *)
(* "POINT"), and the expression is the formula when it is non-empty and    *)
(* the value otherwise.                                                    *)
(***************************************************************************)
C7_OnePairPerCell ==
    pc = "done" =>
        /\ Len(graph.metrics) = Len(cells)
        /\ Len(graph.guesstimates) = Len(cells)
        /\ \A k \in 1..Len(cells) :
              /\ graph.guesstimates[k].metric = cells[k].address
              /\ graph.metrics[k].id = cells[k].address
              /\ graph.guesstimates[k].guesstimateType \in {"FUNCTION", "POINT"}
              /\ graph.guesstimates[k].guesstimateType = "FUNCTION" <=> cells[k].formula # <<>>
              /\ cells[k].formula # <<>> => graph.guesstimates[k].expression = cells[k].formula
              /\ cells[k].formula = <<>> => graph.guesstimates[k].expression = cells[k].value

\* A graph made of a grid with a formula cell, a value cell and a bare label.
C7_Witness ==
    /\ pc = "done"
    /\ Len(graph.metrics) = 3
    /\ \E k \in 1..Len(cells) : graph.guesstimates[k].expression = cells[k].formula
                                /\ cells[k].formula # <<>>
    /\ \E k \in 1..Len(cells) : graph.guesstimates[k].expression = cells[k].value
                                /\ cells[k].value # <<>>
    /\ \E k \in 1..Len(cells) : cells[k].formula = <<>> /\ cells[k].value = <<>>

(***************************************************************************)
(* C8: a cell at spreadsheet row r and column c (counted from 1) of the    *)
(* first sheet gets rowNum = r and colNum = c, and its Metric gets         *)
(* location {row: r - 1, column: c - 1}.                                   *)
(***************************************************************************)
C8_FirstSheetNumbering ==
    \A i \in 1..Len(visited) :
        visited[i].sheet = 1 =>
            /\ visited[i].cell.rowNum = visited[i].row
            /\ visited[i].cell.colNum = visited[i].col
            /\ \A k \in 1..Len(graph.metrics) :
                  graph.metrics[k].id = visited[i].cell.address =>
                      graph.metrics[k].location =
                          [row |-> visited[i].row - 1, column |-> visited[i].col - 1]

(***************************************************************************)
(* C9: for any two cells of the grid that come from different sheets, the  *)
(* cell of the later sheet has a colNum strictly greater than the colNum   *)
(* of the cell of the earlier sheet, so the two do not share a             *)
(* (rowNum, colNum), also when a sheet between them is empty.              *)
(***************************************************************************)
SheetOf(cell) ==
    visited[CHOOSE i \in 1..Len(visited) : visited[i].cell.address = cell.address].sheet

C9_SheetsTile ==
    \A x, y \in 1..Len(cells) :
        SheetOf(cells[x]) < SheetOf(cells[y]) =>
            /\ cells[x].colNum < cells[y].colNum
            /\ <<cells[x].rowNum, cells[x].colNum>> # <<cells[y].rowNum, cells[y].colNum>>

\* A grid of three sheets, the second empty, the first with a cell in its
\* second column and the third with a cell in its first.
C9_Witness ==
    /\ pc = "done"
    /\ Len(sheetNames) = 3
    /\ \A i \in 1..Len(visited) : visited[i].sheet # 2
    /\ \E i, j \in 1..Len(visited) :
          /\ visited[i].sheet = 1 /\ visited[i].col = 2
          /\ visited[j].sheet = 3 /\ visited[j].col = 1
          /\ visited[i].cell.address \in Addresses(cells)
          /\ visited[j].cell.address \in Addresses(cells)

(***************************************************************************)
(* C3: in a workbook of several sheets, after getCellData every reference  *)
(* of the formula, bare or qualified by a sheet of the workbook, carries   *)
(* the sanitized sheet prefix once and stands in one ${metric:...}         *)
(* placeholder: the formula is the sum of one placeholder per reference.   *)
(***************************************************************************)
\* The sheet name a reference is qualified by ("" for a bare reference) and
\* its address.
QualifierOf(ref) == Slice(ref, 1, FindChar(ref, 1, "!"))

AddressPartOf(ref) ==
    IF FindChar(ref, 1, "!") > Len(ref) THEN ref
    ELSE Slice(ref, FindChar(ref, 1, "!") + 1, Len(ref) + 1)

IsBare(ref) == FindChar(ref, 1, "!") > Len(ref)

\* The reference is bare, or qualified by the name of a sheet of the workbook
\* (in quotes when the name holds a blank).
RefersToWorkbook(ref, names) ==
    IsBare(ref) \/ \E k \in 1..Len(names) : QualifierOf(ref) = QuotedName(names[k])

\* The one placeholder the reference is to become in a cell of sheet cur.
ExpectedPlaceholder(ref, cur) ==
    Placeholder(makePrefix(IF IsBare(ref) THEN cur ELSE QualifierOf(ref))
                \o AddressPartOf(ref))

ExpectedFormula(f, cur) ==
    LET refs == Split(f, "+") IN
    <<"=">> \o Join([k \in 1..Len(refs) |-> ExpectedPlaceholder(refs[k], cur)], <<"+">>)

C3_EachReferenceWrappedOnce ==
    (/\ pc = "read"
     /\ \A k \in 1..Len(Split(formula, "+")) :
           RefersToWorkbook(Split(formula, "+")[k], sheetNames))
    => result = ExpectedFormula(formula, sheetNames[sheetIdx])

====
